---- MODULE Spec2Model ----
(***************************************************************************)
(* A model of isofit's Instrument class (src/isofit/instrument.py): the    *)
(* construction of an Instrument from a configuration and the operations   *)
(* xa, Sa, Sy, sample, calibration, dmeas_dinstrument, dmeas_dinstrumentb  *)
(* and simulate_measurement.                                               *)
(*                                                                         *)
(* Numbers.  Wavelengths, FWHMs and calibration states are integers that   *)
(* count steps of 1/200 nm (so wl_tol = 0.01 nm is 2 steps).  Radiances    *)
(* are integers that count steps of 1e-5 (so the SNR floor 1e-5 is 1).     *)
(* Bias magnitudes (bval) are integers that count steps of 1e-6 (so the    *)
(* 1e-6 threshold is 1).  Quotients and square roots are exact rationals   *)
(* <<n, d>> in lowest terms with d > 0; the inputs are chosen so that      *)
(* every square root the code takes is of a perfect square.                *)
(***************************************************************************)
EXTENDS Integers, Sequences, FiniteSets, TLC

VARIABLES status, config, self, op, args, ret, meas

vars == <<status, config, self, op, args, ret, meas>>

----------------------------------------------------------------------------
(* Bounds of the model *)

\* largest number of instrument channels
MaxChan == 2
\* largest number of spatial columns of a pushbroom covariance file
MaxCols == 2
\* integrations is drawn from the squares of 1..MaxIntegRoot
MaxIntegRoot == 2

----------------------------------------------------------------------------
(* Exact arithmetic standing for the floating-point arithmetic of numpy *)

Abs(n) == IF n < 0 THEN -n ELSE n

RECURSIVE GCD(_, _)
GCD(a, b) == IF b = 0 THEN a ELSE GCD(b, a % b)

Rat(n, d) ==
    LET g == GCD(Abs(n), Abs(d))
        s == IF d < 0 THEN -1 ELSE 1
    IN  <<(s * n) \div g, (s * d) \div g>>

RInt(n) == <<n, 1>>
RAdd(p, q) == Rat(p[1] * q[2] + q[1] * p[2], p[2] * q[2])
RMul(p, q) == Rat(p[1] * q[1], p[2] * q[2])
RDiv(p, q) == Rat(p[1] * q[2], p[2] * q[1])
RAbs(p) == <<Abs(p[1]), p[2]>>

\* the exact root of a perfect square (no value otherwise)
ISqrt(n) == CHOOSE r \in 0..n : r * r = n
RSqrt(p) == <<ISqrt(p[1]), ISqrt(p[2])>>

RECURSIVE SumSeq(_)
SumSeq(q) == IF q = << >> THEN 0 ELSE Head(q) + SumSeq(Tail(q))

\* s.zeros(n), s.ones(n) * v
Zeros(n) == [i \in 1..n |-> 0]
Filled(n, v) == [i \in 1..n |-> v]

\* s.diagflat(v) for a vector v
DiagFlat(v) == [i \in 1..Len(v) |-> [j \in 1..Len(v) |-> IF i = j THEN v[i] ELSE 0]]

\* the column j of a matrix (sequence of rows)
Column(M, j) == [i \in 1..Len(M) |-> M[i][j]]

----------------------------------------------------------------------------
(* The configurations an Instrument is constructed from.  A Python dict is *)
(* a record with a has_<key> flag for every optional key.                  *)

\* nominal channel centres and widths, 500 nm, 510 nm, ... and 10 nm
WlGrid(n) == [c \in 1..n |-> 100000 + 2000 * (c - 1)]
FwhmGrid(n) == [c \in 1..n |-> 2000]

WavelengthFiles == {[wl |-> WlGrid(n), fwhm |-> FwhmGrid(n)] : n \in 1..MaxChan}

\* config['statevector'][key] = {init, bounds, scale}
SvEntry(key) ==
    [key |-> key,
     init |-> IF key = "FWHM_SCL" THEN 0 ELSE IF key = "WL_SHIFT" THEN 1 ELSE 7,
     bounds |-> IF key = "FWHM_SCL" THEN <<-4, 4>> ELSE <<-6, 6>>,
     scale |-> IF key = "FWHM_SCL" THEN 2 ELSE IF key = "WL_SHIFT" THEN 3 ELSE 5]

StateVectors ==
    {<< >>, <<SvEntry("FWHM_SCL")>>, <<SvEntry("WL_SHIFT")>>, <<SvEntry("GAIN")>>,
     <<SvEntry("WL_SHIFT"), SvEntry("FWHM_SCL")>>}

\* a coefficient table, rows <<wavelength, a, b, c>>
CoeffTable == <<<<100000, 1, 0, 0>>, <<104000, 3, 0, 2>>>>

\* the flat 'covariances' array of a matrix container with the given
\* columns and bands: column k holds (k+1) * (4 on the diagonal, 1 elsewhere)
CovFlat(columns, bands) ==
    [q \in 1..(columns * bands) |->
        LET k == (q - 1) \div bands
            r == (q - 1) % bands
        IN  (k + 1) * (IF r % (ISqrt(bands) + 1) = 0 THEN 4 ELSE 1)]

MatFiles ==
    {[columns |-> nc, bands |-> m * m, covariances |-> CovFlat(nc, m * m)] :
        nc \in 1..MaxCols, m \in 1..MaxChan}

NoMat == [columns |-> 0, bands |-> 0, covariances |-> << >>]

NoiseFiles ==
    {[ext |-> "txt", table |-> CoeffTable, mat |-> NoMat],
     [ext |-> "dat", table |-> << >>, mat |-> NoMat]}
    \cup {[ext |-> "mat", table |-> << >>, mat |-> D] : D \in MatFiles}

NoNoiseFile == [ext |-> "", table |-> << >>, mat |-> NoMat]

\* the noise keys of a configuration: 'SNR', 'noise_file', or neither
NoiseSpecs ==
    {[has_SNR |-> TRUE, SNR |-> 2, has_noise_file |-> FALSE, noise_file |-> NoNoiseFile],
     [has_SNR |-> FALSE, SNR |-> 0, has_noise_file |-> FALSE, noise_file |-> NoNoiseFile]}
    \cup {[has_SNR |-> FALSE, SNR |-> 0, has_noise_file |-> TRUE, noise_file |-> f] :
             f \in NoiseFiles}

Integrations == {r * r : r \in 1..MaxIntegRoot}

\* a value of config['unknowns']: a number, or the name of a text file whose
\* loaded array has ndim dimensions (rows x 2 when ndim = 2)
NumVal(v) == [isstr |-> FALSE, num |-> v, ndim |-> 0, data |-> << >>]
FileVal(ndim, data) == [isstr |-> TRUE, num |-> 0, ndim |-> ndim, data |-> data]
Absent == [isstr |-> FALSE, num |-> 0, ndim |-> 0, data |-> << >>]

\* per-channel uncertainties held by a file: 3, 0, 3, ...
FileColumn(n) == [c \in 1..n |-> IF c % 2 = 1 THEN 3 ELSE 0]

RadKey == "uncorrelated_radiometric_uncertainty"
WlKey == "wavelength_calibration_uncertainty"
StrayKey == "stray_srf_uncertainty"
UnknownKeys == {RadKey, WlKey, StrayKey}

UnknownsDict(ks, o, w) ==
    [keys |-> ks,
     val |-> [k \in UnknownKeys |->
                IF k \notin ks THEN Absent
                ELSE IF k = RadKey THEN o
                ELSE IF k = WlKey THEN NumVal(w)
                ELSE NumVal(4)]]

\* the 'unknowns' sections for an instrument of n channels: every subset of
\* the keys with scalar values, and the radiometric key given by a file
Unknowns(n) ==
    {UnknownsDict(ks, NumVal(3), w) : ks \in SUBSET UnknownKeys, w \in {1, 5}}
    \cup {UnknownsDict(ks, FileVal(d, IF d = 1 THEN FileColumn(n)
                                     ELSE [c \in 1..n |-> <<c, FileColumn(n)[c]>>]), 5) :
             ks \in {{RadKey}, {RadKey, StrayKey}}, d \in {1, 2}}

NoUnknowns == UnknownsDict({}, Absent, 0)

Config(wf, sv, nz, ig, hasun, un, st) ==
    [wavelength_file |-> wf,
     has_statevector |-> sv # << >>, statevector |-> sv,
     has_SNR |-> nz.has_SNR, SNR |-> nz.SNR,
     has_noise_file |-> nz.has_noise_file, noise_file |-> nz.noise_file,
     integrations |-> ig,
     has_unknowns |-> hasun, unknowns |-> un,
     has_stray_srf_uncertainty |-> st]

\* the configurations: every noise specification with every statevector
\* and no 'unknowns' section, and every 'unknowns' section under the SNR
\* noise model with a fixed and with a retrieved calibration
Configs ==
    {Config(wf, sv, nz, ig, FALSE, NoUnknowns, FALSE) :
        wf \in WavelengthFiles, sv \in StateVectors, nz \in NoiseSpecs,
        ig \in Integrations}
    \cup UNION {{Config(wf, sv, CHOOSE nz \in NoiseSpecs : nz.has_SNR, 1, TRUE, un, st) :
                    sv \in {<< >>, <<SvEntry("WL_SHIFT"), SvEntry("FWHM_SCL")>>},
                    un \in Unknowns(Len(wf.wl)), st \in BOOLEAN} :
                wf \in WavelengthFiles}

----------------------------------------------------------------------------
(* Construction: Instrument.__init__                                       *)

\* An Instrument before __init__ has set anything.  attrs is the set of the
\* attributes that exist; reading another one raises AttributeError.
NewObject ==
    [attrs |-> {}, wl_init |-> << >>, fwhm_init |-> << >>, n_chan |-> 0,
     bounds |-> << >>, scale |-> << >>, statevec |-> << >>, init_val |-> << >>,
     n_state |-> 0, model_type |-> "", snr |-> 0, noise_file |-> NoNoiseFile,
     noise |-> << >>, ncols |-> 0, covs |-> << >>, integrations |-> 0,
     bvec |-> << >>, bval |-> << >>, calibration_fixed |-> FALSE,
     prior_sigma |-> << >>]

\* self.<name> = v
SetAttr(o, name, v) == [o EXCEPT ![name] = v, !.attrs = @ \cup {name}]

Ok(o) == [err |-> "none", obj |-> o]
Raise(e, o) == [err |-> e, obj |-> o]

\* load_wavelen(config['wavelength_file']): the two arrays of the file
load_wavelen(f) == <<f.wl, f.fwhm>>

\* 'name' in a Python list
InList(name, list) == \E i \in 1..Len(list) : list[i] = name

\* list.index(name)
IndexOf(name, list) == CHOOSE i \in 1..Len(list) : list[i] = name /\ \A j \in 1..(i - 1) : list[j] # name

InitWavelength(o, cfg) ==
    LET w == load_wavelen(cfg.wavelength_file)
        o1 == SetAttr(o, "wl_init", w[1])
        o2 == SetAttr(o1, "fwhm_init", w[2])
    IN  SetAttr(o2, "n_chan", Len(w[1]))

InitStatevector(o, cfg) ==
    LET sv == IF cfg.has_statevector THEN cfg.statevector ELSE << >>
        o1 == SetAttr(o, "bounds", [i \in 1..Len(sv) |-> sv[i].bounds])
        o2 == SetAttr(o1, "scale", [i \in 1..Len(sv) |-> sv[i].scale])
        o3 == SetAttr(o2, "statevec", [i \in 1..Len(sv) |-> sv[i].key])
        o4 == SetAttr(o3, "init_val", [i \in 1..Len(sv) |-> sv[i].init])
    IN  SetAttr(o4, "n_state", Len(sv))

\* interp1d(coeffs[:, 0], coeffs[:, col], fill_value='extrapolate')(w):
\* piecewise-linear through the rows, the end segments extended
Interp1d(table, col, w) ==
    LET N == Len(table)
        i == IF w <= table[1][1] THEN 1
             ELSE IF w >= table[N][1] THEN N - 1
             ELSE CHOOSE k \in 1..(N - 1) : table[k][1] <= w /\ w < table[k + 1][1]
        x0 == table[i][1]
        x1 == table[i + 1][1]
        y0 == table[i][col]
        y1 == table[i + 1][col]
    IN  RAdd(RInt(y0), Rat((y1 - y0) * (w - x0), x1 - x0))

\* D['covariances'].reshape((ncols, n, n)), row-major
Reshape(flat, ncols, n) ==
    [k \in 1..ncols |-> [i \in 1..n |-> [j \in 1..n |->
        flat[((k - 1) * n + (i - 1)) * n + j]]]]

InitNoise(o, cfg) ==
    IF cfg.has_SNR
    THEN Ok(SetAttr(SetAttr(o, "model_type", "SNR"), "snr", cfg.SNR))
    ELSE IF ~cfg.has_noise_file THEN Raise("KeyError", o)
    ELSE
        LET o1 == SetAttr(o, "noise_file", cfg.noise_file)
            f == cfg.noise_file
        IN  IF f.ext = "txt"
            THEN Ok(SetAttr(SetAttr(o1, "model_type", "parametric"), "noise",
                     [c \in 1..o.n_chan |->
                        <<Interp1d(f.table, 2, o.wl_init[c]),
                          Interp1d(f.table, 3, o.wl_init[c]),
                          Interp1d(f.table, 4, o.wl_init[c])>>]))
            ELSE IF f.ext = "mat"
            THEN LET o2 == SetAttr(SetAttr(o1, "model_type", "pushbroom"),
                                   "ncols", f.mat.columns)
                 IN  IF o.n_chan * o.n_chan # f.mat.bands
                     THEN Raise("ValueError", o2)
                     ELSE IF Len(f.mat.covariances) # o2.ncols * o.n_chan * o.n_chan
                     THEN Raise("ValueError", o2)
                     ELSE Ok(SetAttr(o2, "covs",
                              Reshape(f.mat.covariances, o2.ncols, o.n_chan)))
            ELSE Ok(o1)

InitIntegrations(o, cfg) == SetAttr(o, "integrations", cfg.integrations)

\* the array u that one entry of config['unknowns'] adds in quadrature
UnknownArray(val, n) ==
    IF val.isstr
    THEN IF val.ndim = 0 THEN [err |-> "none", u |-> Filled(n, val.data)]
         ELSE IF val.ndim = 1 THEN [err |-> "IndexError", u |-> << >>]
         ELSE IF Len(val.data[1]) > 1
              THEN [err |-> "none", u |-> [r \in 1..Len(val.data) |-> val.data[r][2]]]
              ELSE [err |-> "ValueError", u |-> << >>]
    ELSE [err |-> "none", u |-> Filled(n, val.num)]

special_unknowns == {WlKey}

\* the loop over config['unknowns'].items(): the sum of the squares of
\* the arrays of the keys that are not special
RECURSIVE SumSquares(_, _, _)
SumSquares(un, ks, n) ==
    IF ks = {} THEN [err |-> "none", u |-> Zeros(n)]
    ELSE LET key == CHOOSE k \in ks : TRUE
             rest == SumSquares(un, ks \ {key}, n)
             a == UnknownArray(un.val[key], n)
         IN  IF key \in special_unknowns THEN rest
             ELSE IF a.err # "none" THEN [err |-> a.err, u |-> << >>]
             ELSE IF rest.err # "none" THEN rest
             ELSE IF Len(a.u) # n THEN [err |-> "ValueError", u |-> << >>]
             ELSE [err |-> "none", u |-> [c \in 1..n |-> rest.u[c] + a.u[c] * a.u[c]]]

InitBias(o, cfg) ==
    LET n == o.n_chan
        bvec == [c \in 1..(n + 2) |->
                   IF c <= n THEN <<"Cal_Relative", o.wl_init[c] \div 200>>
                   ELSE IF c = n + 1 THEN <<"Cal_Spectral", 0>>
                   ELSE <<"Cal_Stray_SRF", 0>>]
        o1 == SetAttr(SetAttr(o, "bvec", bvec), "bval", Zeros(n + 2))
        un == cfg.unknowns
        acc == SumSquares(un, un.keys, n)
        rss == [c \in 1..(n + 2) |-> IF c <= n THEN ISqrt(acc.u[c]) ELSE 0]
        b2 == IF WlKey \in un.keys THEN [rss EXCEPT ![n + 1] = un.val[WlKey].num] ELSE rss
    IN  IF ~cfg.has_unknowns THEN Ok(o1)
        ELSE IF acc.err # "none" THEN Raise(acc.err, o1)
        ELSE IF cfg.has_stray_srf_uncertainty
             THEN IF StrayKey \in un.keys
                  THEN Ok(SetAttr(o1, "bval", [b2 EXCEPT ![n + 2] = un.val[StrayKey].num]))
                  ELSE Raise("KeyError", SetAttr(o1, "bval", b2))
             ELSE Ok(SetAttr(o1, "bval", b2))

InitCalibrationFixed(o) ==
    SetAttr(o, "calibration_fixed",
            ~InList("FWHM_SCL", o.statevec) /\ ~InList("WL_SHIFT", o.statevec))

\* Instrument(config): the object, or the exception that ends construction
Construct(cfg) ==
    LET o1 == InitStatevector(InitWavelength(NewObject, cfg), cfg)
        r2 == InitNoise(o1, cfg)
        r3 == InitBias(InitIntegrations(r2.obj, cfg), cfg)
    IN  IF r2.err # "none" THEN r2
        ELSE IF r3.err # "none" THEN r3
        ELSE Ok(InitCalibrationFixed(r3.obj))

----------------------------------------------------------------------------
(* The operations.  Each yields a record: err, the exception raised or     *)
(* "none"; val, the value returned; obj, the Instrument after the call.    *)

\* Max. wavelength difference (nm) that does not trigger expensive resampling
wl_tol == 2

\* the radiance floor of the SNR model, 1e-5
meas_floor == 1

\* the bias magnitude, 1e-6, above which a spectral bias column is computed
bval_tol == 1

\* common.eps, the step of the finite differences
eps == 1

Return(v, o) == [err |-> "none", val |-> v, obj |-> o]
Throw(e, o) == [err |-> e, val |-> << >>, obj |-> o]

\* an array argument: a vector (ndim 1) or a matrix of row spectra (ndim 2)
Vec(v) == [ndim |-> 1, v |-> v]
Mat(m) == [ndim |-> 2, v |-> m]
\* the 0-d array left by s.squeeze of a 1 x 1 matrix
Scalar(m) == [ndim |-> 0, v |-> m]

\* xa returning init_val itself, without the copy
xa_WithoutCopy(o) == [err |-> "none", val |-> o.init_val, alias |-> "init_val", obj |-> o]

\* Instrument.xa: a copy of init_val, a new list
xa(o) == [err |-> "none", val |-> o.init_val, alias |-> "copy", obj |-> o]

\* Instrument.Sa
Sa(o) ==
    IF o.n_state = 0 THEN Return(Mat(<< >>), o)
    ELSE IF "prior_sigma" \notin o.attrs THEN Throw("AttributeError", o)
    ELSE Return(Mat(DiagFlat([i \in 1..Len(o.prior_sigma) |->
                                 o.prior_sigma[i] * o.prior_sigma[i]])), o)

\* Instrument.calibration
calibration(o, x) ==
    LET hasF == InList("FWHM_SCL", o.statevec)
        hasW == InList("WL_SHIFT", o.statevec)
        indF == IndexOf("FWHM_SCL", o.statevec)
        indW == IndexOf("WL_SHIFT", o.statevec)
        fwhm == IF hasF THEN [c \in 1..Len(o.fwhm_init) |-> o.fwhm_init[c] + x[indF]]
                ELSE o.fwhm_init
        wl == IF hasW THEN [c \in 1..Len(o.wl_init) |-> o.wl_init[c] + x[indW]]
              ELSE o.wl_init
    IN  IF hasF /\ indF > Len(x) THEN Throw("IndexError", o)
        ELSE IF hasW /\ indW > Len(x) THEN Throw("IndexError", o)
        ELSE Return(<<wl, fwhm>>, o)

\* the weight of the response centred at wl with width fwhm at wavelength w
Response(w, wl, fwhm) == IF Abs(w - wl) < fwhm THEN fwhm - Abs(w - wl) ELSE 0

\* common.resample_spectrum(x, wl, wl2, fwhm2): for every target channel the
\* spectrum x (on the grid wl) integrated against the channel's response
resample_spectrum(x, wl, wl2, fwhm2) ==
    [c \in 1..Len(wl2) |->
        SumSeq([j \in 1..Len(wl) |-> x[j] * Response(wl[j], wl2[c], fwhm2[c])])]

\* whether the shapes (n,) and (m,) broadcast
Broadcasts(n, m) == n = m \/ n = 1 \/ m = 1

\* all((a - b) < tol) for two broadcast vectors
AllDiffBelow(a, b, tol) ==
    \A i \in 1..Len(a), j \in 1..Len(b) :
        (Len(a) = Len(b) => i = j) => a[i] - b[j] < tol

\* Instrument.sample; calls counts the resample_spectrum calls made
sample(o, x, wl_hi, rdn_hi) ==
    LET cal == calibration(o, x)
        wl == cal.val[1]
        fwhm == cal.val[2]
    IN  IF o.calibration_fixed /\ ~Broadcasts(Len(o.wl_init), Len(wl_hi))
        THEN [err |-> "ValueError", val |-> Vec(<< >>), calls |-> 0, obj |-> o]
        ELSE IF o.calibration_fixed /\ AllDiffBelow(o.wl_init, wl_hi, wl_tol)
        THEN [err |-> "none", val |-> rdn_hi, calls |-> 0, obj |-> o]
        ELSE IF cal.err # "none"
        THEN [err |-> cal.err, val |-> Vec(<< >>), calls |-> 0, obj |-> cal.obj]
        ELSE IF rdn_hi.ndim = 1
        THEN [err |-> "none", val |-> Vec(resample_spectrum(rdn_hi.v, wl_hi, wl, fwhm)),
              calls |-> 1, obj |-> cal.obj]
        ELSE [err |-> "none",
              val |-> Mat([r \in 1..Len(rdn_hi.v) |->
                             resample_spectrum(rdn_hi.v[r], wl_hi, wl, fwhm)]),
              calls |-> Len(rdn_hi.v), obj |-> cal.obj]

\* a geometry: pushbroom_column is None, or a column index counted from 0
GeomNone == [none |-> TRUE, pushbroom_column |-> 0]
GeomColumn(k) == [none |-> FALSE, pushbroom_column |-> k]

\* pow(s.diagflat(nedl), 2) for a vector of rationals
SquaredDiag(nedl) ==
    [i \in 1..Len(nedl) |-> [j \in 1..Len(nedl) |->
        IF i = j THEN RMul(nedl[i], nedl[i]) ELSE RInt(0)]]

\* meas[meas < 1e-5] = 1e-5
Clamp(m) == [c \in 1..Len(m) |-> IF m[c] < meas_floor THEN meas_floor ELSE m[c]]

\* self.covs.mean(axis=0)
ColumnMean(covs) ==
    [i \in 1..Len(covs[1]) |-> [j \in 1..Len(covs[1]) |->
        Rat(SumSeq([k \in 1..Len(covs) |-> covs[k][i][j]]), Len(covs))]]

\* s.squeeze of a matrix: a 1 x 1 matrix becomes a 0-d array
Squeeze(M) == IF Len(M) = 1 /\ Len(M[1]) = 1 THEN Scalar(M) ELSE Mat(M)

\* C / s.sqrt(self.integrations), C an array of rationals
ScaleByIntegrations(C, integrations) ==
    [C EXCEPT !.v = [i \in 1..Len(C.v) |-> [j \in 1..Len(C.v[i]) |->
        RDiv(C.v[i][j], RSqrt(RInt(integrations)))]]]

RatMatrix(M) == [i \in 1..Len(M) |-> [j \in 1..Len(M[i]) |-> RInt(M[i][j])]]

SyResult(e, v, m, o) == [err |-> e, val |-> v, meas |-> m, obj |-> o]

\* the SNR branch of Sy: the measurement clamped in place, nedl = meas / snr
SnrNedl(o, m1) == [c \in 1..Len(m1) |-> RMul(Rat(1, o.snr), RInt(m1[c]))]

\* the parametric nedl divided by integrations instead of its square root
ParametricNedl_WithoutRoot(o, m) ==
    [c \in 1..Len(m) |->
        RDiv(RAbs(RAdd(RMul(o.noise[c][1], RSqrt(RAdd(o.noise[c][2], RInt(m[c])))),
                       o.noise[c][3])),
             RInt(o.integrations))]

\* the parametric branch of Sy:
\* nedl = abs(a * sqrt(b + meas) + c) / sqrt(integrations)
ParametricNedl(o, m) ==
    [c \in 1..Len(m) |->
        RDiv(RAbs(RAdd(RMul(o.noise[c][1], RSqrt(RAdd(o.noise[c][2], RInt(m[c])))),
                       o.noise[c][3])),
             RSqrt(RInt(o.integrations)))]

\* the selection with the test 'is None' slipped to a truth test, which
\* takes column 0 for no column
PushbroomCovariance_ColumnZeroAsNone(o, geom) ==
    IF geom.none \/ geom.pushbroom_column = 0 THEN Squeeze(ColumnMean(o.covs))
    ELSE Mat(RatMatrix(o.covs[geom.pushbroom_column + 1]))

\* the pushbroom branch of Sy: the covariance C selected by the geometry
PushbroomCovariance(o, geom) ==
    IF geom.none THEN Squeeze(ColumnMean(o.covs))
    ELSE Mat(RatMatrix(o.covs[geom.pushbroom_column + 1]))

\* Instrument.Sy; meas in the result is the caller's array after the call
Sy(o, m, geom) ==
    IF "model_type" \notin o.attrs THEN SyResult("AttributeError", Mat(<< >>), m, o)
    ELSE IF o.model_type = "SNR"
    THEN SyResult("none", Mat(SquaredDiag(SnrNedl(o, Clamp(m)))), Clamp(m), o)
    ELSE IF o.model_type = "parametric"
    THEN SyResult("none", Mat(SquaredDiag(ParametricNedl(o, m))), m, o)
    ELSE IF o.model_type = "pushbroom"
    THEN IF ~geom.none /\ geom.pushbroom_column >= o.ncols
         THEN SyResult("IndexError", Mat(<< >>), m, o)
         ELSE SyResult("none",
                       ScaleByIntegrations(PushbroomCovariance(o, geom), o.integrations),
                       m, o)
    ELSE SyResult("none", Mat(<< >>), m, o)

\* Instrument.simulate_measurement; draw is the sample that
\* multivariate_normal(mu, Sy) returns
simulate_measurement(o, m, geom, draw) ==
    LET sy == Sy(o, m, geom)
    IN  IF sy.err # "none" THEN [sy EXCEPT !.val = << >>]
        ELSE IF sy.val.ndim # 2 \/ Len(sy.val.v) # Len(m)
        THEN SyResult("ValueError", << >>, sy.meas, sy.obj)
        ELSE SyResult("none", [c \in 1..Len(m) |-> sy.meas[c] + draw[c]],
                      sy.meas, sy.obj)

\* the samples a zero-mean normal distribution of covariance cov can give,
\* up to one step in size: a channel of zero variance has zero noise, and
\* the others have noise of one sign or of alternating signs
Draws(cov, n) ==
    {[c \in 1..n |->
        IF c <= Len(cov) /\ cov[c][c] = RInt(0) THEN 0
        ELSE IF alt /\ c % 2 = 0 THEN -s ELSE s] :
        s \in {-1, 1}, alt \in BOOLEAN}

\* Python values whose type decides what range() does with them
PyInt(n) == [type |-> "int", v |-> n]
PyList(l) == [type |-> "list", v |-> l]

\* range(a): the indices 0..a-1 of an int; a TypeError for anything else
PyRange(a) ==
    IF a.type = "int" THEN [err |-> "none", val |-> [i \in 1..a.v |-> i - 1]]
    ELSE [err |-> "TypeError", val |-> << >>]

\* x_instrument.copy() with entry ind (counted from 0) increased by eps
Perturb(x, ind) == [x EXCEPT ![ind + 1] = @ + eps]

JacResult(e, v, n, o) == [err |-> e, val |-> v, calls |-> n, obj |-> o]

\* Instrument.dmeas_dinstrument
dmeas_dinstrument(o, x, wl_hi, rdn_hi) ==
    LET zero == [c \in 1..o.n_chan |-> [i \in 1..o.n_state |-> 0]]
        m == sample(o, x, wl_hi, rdn_hi)
        inds == PyRange(PyList(o.statevec))
        pert == [i \in 1..Len(inds.val) |->
                   sample(o, Perturb(x, inds.val[i]), wl_hi, rdn_hi)]
    IN  IF o.n_state = 0 THEN JacResult("none", Mat(zero), 0, o)
        ELSE IF m.err # "none" THEN JacResult(m.err, Mat(<< >>), m.calls, m.obj)
        ELSE IF inds.err # "none" THEN JacResult(inds.err, Mat(<< >>), m.calls, m.obj)
        ELSE IF \E i \in 1..Len(pert) : pert[i].err # "none"
        THEN JacResult("ValueError", Mat(<< >>), m.calls, m.obj)
        ELSE JacResult("none",
                 Mat([c \in 1..o.n_chan |-> [i \in 1..o.n_state |->
                        IF i <= Len(pert)
                        THEN (pert[i].val.v[c] - m.val.v[c]) \div eps
                        ELSE 0]]),
                 m.calls + SumSeq([i \in 1..Len(pert) |-> pert[i].calls]), m.obj)

\* s.hstack((s.diff(rdn_hi), s.array([0])))
DiffPad(v) == [j \in 1..Len(v) |-> IF j < Len(v) THEN v[j + 1] - v[j] ELSE 0]

\* common.srf(s.arange(-10, 11), 0, 4): a symmetric response over the
\* offsets -10..10, given here at offset k
srf(k, mu, sigma) == IF Abs(k - mu) < sigma THEN sigma - Abs(k - mu) ELSE 0

\* scipy.signal.convolve(v, ssrf, mode='same'), ssrf over the offsets -10..10
ConvolveSame(v) ==
    [i \in 1..Len(v) |->
        SumSeq([j \in 1..Len(v) |->
                  IF Abs(i - j) <= 10 THEN v[j] * srf(i - j, 0, 4) ELSE 0])]

\* the threshold test with the comparison slipped to >=
BiasAtOrAbove(b) == b >= bval_tol

\* self.bval[k] > 1e-6
BiasAbove(b) == b > bval_tol

\* Instrument.dmeas_dinstrumentb
dmeas_dinstrumentb(o, x, wl_hi, rdn_hi) ==
    LET n == o.n_chan
        m == sample(o, x, wl_hi, rdn_hi)
        K0 == [c \in 1..n |-> [i \in 1..(n + 2) |->
                 IF i = c THEN m.val.v[c] ELSE 0]]
        shift == sample(o, x, wl_hi, Vec(DiffPad(rdn_hi.v)))
        K1 == IF BiasAbove(o.bval[n + 1])
              THEN [c \in 1..n |-> [K0[c] EXCEPT ![n + 1] = shift.val.v[c]]]
              ELSE K0
        blur == ConvolveSame(m.val.v)
        K2 == IF BiasAbove(o.bval[n + 2])
              THEN [c \in 1..n |-> [K1[c] EXCEPT ![n + 2] = blur[c] - m.val.v[c]]]
              ELSE K1
        calls == m.calls + (IF BiasAbove(o.bval[n + 1]) THEN shift.calls ELSE 0)
    IN  IF m.err # "none" THEN JacResult(m.err, Mat(<< >>), m.calls, m.obj)
        ELSE IF m.val.ndim # 1 \/ Len(m.val.v) # n
        THEN JacResult("ValueError", Mat(<< >>), m.calls, m.obj)
        ELSE JacResult("none", Mat(K2), calls, m.obj)

----------------------------------------------------------------------------
(* The arguments the operations are called with *)

\* measurement vectors: entries below the floor (0) and above it (4)
MeasVecs(n) == [1..n -> {0, 4}]

Geoms(o) ==
    IF o.model_type = "pushbroom"
    THEN {GeomNone} \cup {GeomColumn(k) : k \in 0..(MaxCols - 1)}
    ELSE {GeomNone}

\* calibration states aligned with statevec
Xs(o) == {Filled(o.n_state, v) : v \in {0, 2}}

\* high-resolution grids: the instrument grid moved as a whole, the grid
\* with only its last channel moved, and a grid of one more point
WlHis(o) ==
    {[c \in 1..o.n_chan |-> o.wl_init[c] + d] : d \in {-2, -1, 0, 3}}
    \cup {[o.wl_init EXCEPT ![o.n_chan] = @ + d] : d \in {-3, 3}}
    \cup {[c \in 1..(o.n_chan + 1) |-> 100000 + 1000 * (c - 1)]}

\* radiance spectra on a grid of L points
Rdns(L) == {Vec([j \in 1..L |-> j * j]), Vec([j \in 1..L |-> 4])}
RdnMatrices(L) == {Mat(<<[j \in 1..L |-> j * j], [j \in 1..L |-> 4]>>)}

\* the caller's arrays: none, the arguments of the noise operations (kind
\* "noise": meas, geom) or those of the spectral ones (kind "spectral": x,
\* wl_hi, rdn_hi), as they were when the caller made them
NoArgs ==
    [kind |-> "none", x |-> << >>, wl_hi |-> << >>, rdn_hi |-> Vec(<< >>),
     meas |-> << >>, geom |-> GeomNone]

NoConfig ==
    Config([wl |-> << >>, fwhm |-> << >>], << >>,
           [has_SNR |-> FALSE, SNR |-> 0, has_noise_file |-> FALSE,
            noise_file |-> NoNoiseFile],
           0, FALSE, NoUnknowns, FALSE)

NoRet == [err |-> "none", val |-> << >>, calls |-> 0, alias |-> "none"]

----------------------------------------------------------------------------
(* The state machine.  One Instrument is constructed; the caller makes the *)
(* arrays it passes, calls operations on them in any order, and drops them *)
(* to make others.  status: "new", "ready" or "failed" (construction       *)
(* raised).  op, ret: the last operation and what it returned.  args: the  *)
(* caller's arrays as made.  meas: the caller's measurement array as it is *)
(* now.                                                                    *)

Init ==
    /\ status = "new"
    /\ config = NoConfig
    /\ self = NewObject
    /\ op = "none"
    /\ args = NoArgs
    /\ ret = NoRet
    /\ meas = << >>

\* Instrument(config)
New ==
    /\ status = "new"
    /\ \E cfg \in Configs :
         LET r == Construct(cfg)
         IN  /\ config' = cfg
             /\ status' = IF r.err = "none" THEN "ready" ELSE "failed"
             /\ self' = IF r.err = "none" THEN r.obj ELSE NewObject
             /\ ret' = [NoRet EXCEPT !.err = r.err]
    /\ op' = "__init__"
    /\ args' = NoArgs
    /\ meas' = << >>

\* the caller makes a measurement and a geometry
MakeNoiseArgs ==
    /\ status = "ready"
    /\ args.kind = "none"
    /\ \E m \in MeasVecs(self.n_chan), geom \in Geoms(self) :
         /\ args' = [NoArgs EXCEPT !.kind = "noise", !.meas = m, !.geom = geom]
         /\ meas' = m
    /\ op' = "none"
    /\ ret' = NoRet
    /\ UNCHANGED <<status, config, self>>

\* the caller makes a calibration state, a grid and a spectrum on it
MakeSpectralArgs ==
    /\ status = "ready"
    /\ args.kind = "none"
    /\ \E x \in Xs(self), wl_hi \in WlHis(self) :
         \/ \E rdn_hi \in Rdns(Len(wl_hi)) :
              args' = [NoArgs EXCEPT !.kind = "spectral", !.x = x, !.wl_hi = wl_hi,
                                     !.rdn_hi = rdn_hi]
         \/ \E rdn_hi \in RdnMatrices(Len(wl_hi)) :
              args' = [NoArgs EXCEPT !.kind = "spectral", !.x = x, !.wl_hi = wl_hi,
                                     !.rdn_hi = rdn_hi]
    /\ op' = "none"
    /\ ret' = NoRet
    /\ meas' = << >>
    /\ UNCHANGED <<status, config, self>>

\* the caller drops its arrays
DropArgs ==
    /\ status = "ready"
    /\ args.kind # "none"
    /\ args' = NoArgs
    /\ op' = "none"
    /\ ret' = NoRet
    /\ meas' = << >>
    /\ UNCHANGED <<status, config, self>>

CallXa ==
    /\ status = "ready"
    /\ args.kind = "none"
    /\ LET r == xa(self)
       IN  /\ self' = r.obj
           /\ ret' = [err |-> r.err, val |-> r.val, calls |-> 0, alias |-> r.alias]
    /\ op' = "xa"
    /\ UNCHANGED <<status, config, args, meas>>

\* the caller alters the sequence that xa returned
AlterReturned ==
    /\ status = "ready"
    /\ op = "xa"
    /\ ret.val # << >>
    /\ ret' = [ret EXCEPT !.val[1] = @ + 1]
    /\ self' = IF ret.alias = "init_val"
               THEN [self EXCEPT !.init_val[1] = @ + 1]
               ELSE self
    /\ op' = "altered"
    /\ UNCHANGED <<status, config, args, meas>>

CallSa ==
    /\ status = "ready"
    /\ args.kind = "none"
    /\ LET r == Sa(self)
       IN  /\ self' = r.obj
           /\ ret' = [err |-> r.err, val |-> r.val, calls |-> 0, alias |-> "none"]
    /\ op' = "Sa"
    /\ UNCHANGED <<status, config, args, meas>>

CallCalibration ==
    /\ status = "ready"
    /\ args.kind = "spectral"
    /\ LET r == calibration(self, args.x)
       IN  /\ self' = r.obj
           /\ ret' = [err |-> r.err, val |-> r.val, calls |-> 0, alias |-> "none"]
    /\ op' = "calibration"
    /\ UNCHANGED <<status, config, args, meas>>

CallSample ==
    /\ status = "ready"
    /\ args.kind = "spectral"
    /\ LET r == sample(self, args.x, args.wl_hi, args.rdn_hi)
       IN  /\ self' = r.obj
           /\ ret' = [err |-> r.err, val |-> r.val, calls |-> r.calls,
                      alias |-> "none"]
    /\ op' = "sample"
    /\ UNCHANGED <<status, config, args, meas>>

CallSy ==
    /\ status = "ready"
    /\ args.kind = "noise"
    /\ LET r == Sy(self, meas, args.geom)
       IN  /\ self' = r.obj
           /\ ret' = [err |-> r.err, val |-> r.val, calls |-> 0, alias |-> "none"]
           /\ meas' = r.meas
    /\ op' = "Sy"
    /\ UNCHANGED <<status, config, args>>

CallSimulateMeasurement ==
    /\ status = "ready"
    /\ args.kind = "noise"
    /\ \E draw \in Draws(Sy(self, meas, args.geom).val.v, self.n_chan) :
         LET r == simulate_measurement(self, meas, args.geom, draw)
         IN  /\ self' = r.obj
             /\ ret' = [err |-> r.err, val |-> r.val, calls |-> 0, alias |-> "none"]
             /\ meas' = r.meas
    /\ op' = "simulate_measurement"
    /\ UNCHANGED <<status, config, args>>

CallDmeasDinstrument ==
    /\ status = "ready"
    /\ args.kind = "spectral"
    /\ args.rdn_hi.ndim = 1
    /\ LET r == dmeas_dinstrument(self, args.x, args.wl_hi, args.rdn_hi)
       IN  /\ self' = r.obj
           /\ ret' = [err |-> r.err, val |-> r.val, calls |-> r.calls,
                      alias |-> "none"]
    /\ op' = "dmeas_dinstrument"
    /\ UNCHANGED <<status, config, args, meas>>

CallDmeasDinstrumentb ==
    /\ status = "ready"
    /\ args.kind = "spectral"
    /\ args.rdn_hi.ndim = 1
    /\ LET r == dmeas_dinstrumentb(self, args.x, args.wl_hi, args.rdn_hi)
       IN  /\ self' = r.obj
           /\ ret' = [err |-> r.err, val |-> r.val, calls |-> r.calls,
                      alias |-> "none"]
    /\ op' = "dmeas_dinstrumentb"
    /\ UNCHANGED <<status, config, args, meas>>

Next ==
    \/ New
    \/ MakeNoiseArgs
    \/ MakeSpectralArgs
    \/ DropArgs
    \/ CallXa
    \/ AlterReturned
    \/ CallSa
    \/ CallCalibration
    \/ CallSample
    \/ CallSy
    \/ CallSimulateMeasurement
    \/ CallDmeasDinstrument
    \/ CallDmeasDinstrumentb

Spec == Init /\ [][Next]_vars

----------------------------------------------------------------------------
(* The claims *)

Called(name) == status = "ready" /\ op = name

\* C1: for every constructed Instrument, Sa() returns the n_state x n_state
\* diagonal matrix of the squares of scale (0 x 0 when n_state = 0); it
\* returns a matrix, not an error, for every n_state >= 1.
C1_SaIsDiagonalOfSquaredScale ==
    Called("Sa") =>
        /\ ret.err = "none"
        /\ ret.val = Mat(DiagFlat([i \in 1..self.n_state |->
                                      self.scale[i] * self.scale[i]]))

\* the finite difference that column ind (counted from 1) of the Jacobian
\* of the calibration state is to hold
FiniteDifference(ind) ==
    LET base == sample(self, args.x, args.wl_hi, args.rdn_hi)
        pert == sample(self, [args.x EXCEPT ![ind] = @ + eps], args.wl_hi, args.rdn_hi)
    IN  [c \in 1..self.n_chan |-> (pert.val.v[c] - base.val.v[c]) \div eps]

\* C2: dmeas_dinstrument returns an n_chan x n_state matrix: of no columns
\* when n_state = 0, and when n_state >= 1 it completes (wherever sample
\* does), with column i the finite difference of sample in state entry i.
C2_JacobianIsFiniteDifference ==
    (/\ Called("dmeas_dinstrument")
     /\ sample(self, args.x, args.wl_hi, args.rdn_hi).err = "none"
     /\ Len(sample(self, args.x, args.wl_hi, args.rdn_hi).val.v) = self.n_chan) =>
        /\ ret.err = "none"
        /\ Len(ret.val.v) = self.n_chan
        /\ \A c \in 1..self.n_chan : Len(ret.val.v[c]) = self.n_state
        /\ \A i \in 1..self.n_state :
             Column(ret.val.v, i) = FiniteDifference(i)

\* C3: dmeas_dinstrumentb returns an n_chan x (n_chan+2) matrix whose first
\* n_chan columns are diag(meas), meas = sample(x, wl_hi, rdn_hi); each of
\* the last two columns is all zeros unless its magnitude in bval exceeds
\* 1e-6.
C3_BiasJacobianShape ==
    (Called("dmeas_dinstrumentb") /\ ret.err = "none") =>
        LET n == self.n_chan
            m == sample(self, args.x, args.wl_hi, args.rdn_hi).val.v
        IN  /\ Len(ret.val.v) = n
            /\ \A c \in 1..n : Len(ret.val.v[c]) = n + 2
            /\ \A c \in 1..n, i \in 1..n :
                 ret.val.v[c][i] = IF i = c THEN m[c] ELSE 0
            /\ (self.bval[n + 1] <= bval_tol) => Column(ret.val.v, n + 1) = Zeros(n)
            /\ (self.bval[n + 2] <= bval_tol) => Column(ret.val.v, n + 2) = Zeros(n)

\* a bias Jacobian with both spectral columns computed and not zero, over
\* a measurement that was resampled
C3_Witness ==
    /\ Called("dmeas_dinstrumentb")
    /\ ret.err = "none"
    /\ ret.calls > 0
    /\ self.n_chan = MaxChan
    /\ self.bval[self.n_chan + 1] > bval_tol
    /\ self.bval[self.n_chan + 2] > bval_tol
    /\ Column(ret.val.v, self.n_chan + 1) # Zeros(self.n_chan)
    /\ Column(ret.val.v, self.n_chan + 2) # Zeros(self.n_chan)

\* the square root of integrations, an integer for every configuration
RootIntegrations == ISqrt(self.integrations)

\* C4: in the pushbroom model Sy returns, scaled by 1/sqrt(integrations),
\* the element-wise mean over the ncols matrices of covs when
\* geom.pushbroom_column is None and exactly covs[k] for a column index k
\* in 0..ncols-1 (k = 0 included); the result does not depend on meas.
C4_PushbroomSelectsCovariance ==
    (Called("Sy") /\ self.model_type = "pushbroom" /\ ret.err = "none") =>
        LET n == self.n_chan
            k == args.geom.pushbroom_column + 1
        IN  /\ Len(ret.val.v) = n
            /\ \A i \in 1..n, j \in 1..n :
                 IF args.geom.none
                 THEN RMul(ret.val.v[i][j], RInt(RootIntegrations * self.ncols))
                        = RInt(SumSeq([c \in 1..self.ncols |-> self.covs[c][i][j]]))
                 ELSE RMul(ret.val.v[i][j], RInt(RootIntegrations))
                        = RInt(self.covs[k][i][j])
            /\ \A m2 \in MeasVecs(n) : Sy(self, m2, args.geom).val = ret.val

\* Sy was called with column 0 of a pushbroom model of several columns,
\* whose covariance differs from the column mean
C4_Witness ==
    /\ Called("Sy")
    /\ self.model_type = "pushbroom"
    /\ ret.err = "none"
    /\ self.ncols > 1
    /\ ~args.geom.none
    /\ args.geom.pushbroom_column = 0
    /\ ret.val # Sy(self, args.meas, GeomNone).val

\* the instrument with its integrations multiplied by 4
FourfoldIntegrations == [self EXCEPT !.integrations = 4 * @]

\* every entry of the matrix A is k times the matching entry of B
EntriesAreMultiple(A, k, B) ==
    /\ Len(A) = Len(B)
    /\ \A i \in 1..Len(A), j \in 1..Len(A) : A[i][j] = RMul(RInt(k), B[i][j])

\* C5 as claimed: for each of the three noise models, multiplying
\* integrations by 4 divides every entry of the covariance Sy returns by 4.
C5_FourfoldIntegrationsQuartersSy ==
    (Called("Sy") /\ ret.err = "none") =>
        EntriesAreMultiple(ret.val.v, 4,
                           Sy(FourfoldIntegrations, args.meas, args.geom).val.v)

\* C5 as amended: multiplying integrations by 4 divides every entry of Sy
\* by 4 in the parametric model and by 2 in the pushbroom model, and leaves
\* Sy as it is in the SNR model.
C5_IntegrationsScaling ==
    (Called("Sy") /\ ret.err = "none") =>
        LET four == Sy(FourfoldIntegrations, args.meas, args.geom).val.v
        IN  /\ self.model_type = "parametric" => EntriesAreMultiple(ret.val.v, 4, four)
            /\ self.model_type = "pushbroom" => EntriesAreMultiple(ret.val.v, 2, four)
            /\ self.model_type = "SNR" => EntriesAreMultiple(ret.val.v, 1, four)

\* Sy was called on a parametric model and returned a covariance with a
\* variance that is not zero
C5_Witness ==
    /\ Called("Sy")
    /\ self.model_type = "parametric"
    /\ ret.err = "none"
    /\ \E c \in 1..self.n_chan : ret.val.v[c][c] # RInt(0)

\* the array that the radiometric key of 'unknowns' contributes
RadiometricArray ==
    LET val == config.unknowns.val[RadKey]
    IN  IF RadKey \notin config.unknowns.keys THEN Zeros(self.n_chan)
        ELSE IF val.isstr THEN [c \in 1..self.n_chan |-> val.data[c][2]]
        ELSE Filled(self.n_chan, val.num)

\* C6: after construction with an 'unknowns' section, bval[n_chan] is the
\* wavelength calibration uncertainty and bval[n_chan+1] the stray SRF
\* uncertainty (0 when the key is absent), and the first n_chan entries
\* combine only the other configured unknowns.
C6_SpecialUnknownsRouted ==
    (status = "ready" /\ config.has_unknowns) =>
        LET n == self.n_chan
            un == config.unknowns
        IN  /\ self.bval[n + 1] = IF WlKey \in un.keys THEN un.val[WlKey].num ELSE 0
            /\ self.bval[n + 2] = IF StrayKey \in un.keys THEN un.val[StrayKey].num ELSE 0
            /\ \A c \in 1..n : self.bval[c] = Abs(RadiometricArray[c])

\* C7: a call of Sy or simulate_measurement leaves the caller's meas array
\* as it was passed, and simulate_measurement returns that meas plus the
\* drawn noise.
C7_MeasLeftAsPassed ==
    ((Called("Sy") \/ Called("simulate_measurement")) /\ ret.err = "none") =>
        /\ meas = args.meas
        /\ Called("simulate_measurement") =>
             \A c \in 1..self.n_chan : ret.val[c] - args.meas[c] \in {-1, 0, 1}

\* C8: no call of an operation, whether it returns or raises, and no change
\* the caller makes to the sequence xa returned, changes a field of the
\* Instrument.
C8_FieldsUnchanged == [][status = "ready" => self' = self]_vars

\* the caller has altered the sequence xa returned, which now differs from
\* init_val
C8_Witness ==
    /\ status = "ready"
    /\ op = "altered"
    /\ ret.val # self.init_val

\* C9: sample returns rdn_hi without resampling exactly when
\* calibration_fixed is true and every channel has
\* |wl_init[c] - wl_hi[c]| < wl_tol.
C9_FastPathIffWithinTolerance ==
    (Called("sample") /\ ret.err = "none" /\ Len(args.wl_hi) = self.n_chan) =>
        /\ (ret.calls = 0) <=>
             (/\ self.calibration_fixed
              /\ \A c \in 1..self.n_chan :
                   Abs(self.wl_init[c] - args.wl_hi[c]) < wl_tol)
        /\ (ret.calls = 0) => ret.val = args.rdn_hi

\* C10: a constructed Instrument has model_type set to SNR, parametric or
\* pushbroom with that variant's payload populated, so that no Sy call
\* finds the discriminant unset.
C10_ModelTypeSet ==
    /\ status = "ready" =>
        /\ "model_type" \in self.attrs
        /\ \/ self.model_type = "SNR" /\ "snr" \in self.attrs
           \/ /\ self.model_type = "parametric"
              /\ "noise" \in self.attrs
              /\ Len(self.noise) = self.n_chan
              /\ \A c \in 1..self.n_chan : Len(self.noise[c]) = 3
           \/ /\ self.model_type = "pushbroom"
              /\ "covs" \in self.attrs
              /\ config.noise_file.mat.bands = self.n_chan * self.n_chan
              /\ Len(self.covs) = self.ncols
              /\ \A k \in 1..self.ncols :
                   /\ Len(self.covs[k]) = self.n_chan
                   /\ \A i \in 1..self.n_chan : Len(self.covs[k][i]) = self.n_chan
    /\ Called("Sy") => ret.err # "AttributeError"

====
